---- MODULE Spec2Model ----
(***************************************************************************)
(* Report_Generator: the loader (data_sources.py), the Transaction and     *)
(* ReportSummary models (models.py), the aggregator (summary.py), the      *)
(* renderers (templates.py, ReportSummary.as_dict) and the command line    *)
(* driver generate_report (cli.py).                                        *)
(*                                                                         *)
(* Conventions.  A Python str is a sequence of one-character strings.  A   *)
(* datetime.date is the integer yyyymmdd (its order is the chronological   *)
(* order).  A Decimal is an integer number of currency units; the averages *)
(* of the styled document are exact fractions [num, den].  A dict is the   *)
(* sequence of its [k, v] items in insertion order, keys distinct.  A      *)
(* Python value read from a file is a record [t, s, n]: t is its type tag, *)
(* s its text (str) and n its number (int).  An optional value (None or a  *)
(* value) is a sequence of length 0 or 1.                                  *)
(***************************************************************************)
EXTENDS Integers, Sequences, FiniteSets, TLC

(***************************************************************************)
(* Bounds of the model.                                                    *)
(***************************************************************************)
\* records per input file (pipeline specification)
MaxRecords == 2
\* transactions per sequence handed directly to the aggregator
MaxTxns == 3
\* items per map of a hand-built ReportSummary handed directly to a renderer
MaxItems == 2

(***************************************************************************)
(* Characters and strings.                                                 *)
(***************************************************************************)
Digits == {"0", "1", "2", "3", "4", "5", "6", "7", "8", "9"}

DigitVal ==
  "0" :> 0 @@ "1" :> 1 @@ "2" :> 2 @@ "3" :> 3 @@ "4" :> 4 @@
  "5" :> 5 @@ "6" :> 6 @@ "7" :> 7 @@ "8" :> 8 @@ "9" :> 9

DigitChar == <<"0", "1", "2", "3", "4", "5", "6", "7", "8", "9">>

\* Unicode code points of the characters the model's strings are made of
Ord ==
  " " :> 32 @@ "$" :> 36 @@ "," :> 44 @@ "-" :> 45 @@ "." :> 46 @@
  "0" :> 48 @@ "1" :> 49 @@ "2" :> 50 @@ "3" :> 51 @@ "4" :> 52 @@
  "5" :> 53 @@ "6" :> 54 @@ "7" :> 55 @@ "8" :> 56 @@ "9" :> 57 @@
  "A" :> 65 @@ "B" :> 66 @@ "J" :> 74 @@ "N" :> 78 @@ "O" :> 79 @@
  "R" :> 82 @@ "S" :> 83 @@ "T" :> 84 @@ "U" :> 85 @@ "V" :> 86 @@
  "X" :> 88 @@ "[" :> 91 @@ "]" :> 93 @@
  "a" :> 97 @@ "b" :> 98 @@ "c" :> 99 @@ "d" :> 100 @@ "e" :> 101 @@
  "g" :> 103 @@ "i" :> 105 @@ "j" :> 106 @@ "n" :> 110 @@ "o" :> 111 @@
  "r" :> 114 @@ "s" :> 115 @@ "t" :> 116 @@ "u" :> 117 @@ "v" :> 118 @@
  "x" :> 120

Whitespace == {" "}

\* str.lower() on one character
LowerChar(c) ==
  IF Ord[c] >= 65 /\ Ord[c] <= 90
    THEN CHOOSE d \in DOMAIN Ord : Ord[d] = Ord[c] + 32
    ELSE c

\* str.lower()
RECURSIVE Lower(_)
Lower(s) == IF s = <<>> THEN <<>> ELSE <<LowerChar(Head(s))>> \o Lower(Tail(s))

RECURSIVE LStrip(_)
LStrip(s) ==
  IF s # <<>> /\ Head(s) \in Whitespace THEN LStrip(Tail(s)) ELSE s

RECURSIVE RStrip(_)
RStrip(s) ==
  IF s # <<>> /\ s[Len(s)] \in Whitespace
    THEN RStrip(SubSeq(s, 1, Len(s) - 1))
    ELSE s

\* str.strip()
Strip(s) == RStrip(LStrip(s))

\* s < t for two str values: lexicographic by code point
RECURSIVE StrLess(_, _)
StrLess(s, t) ==
  IF t = <<>> THEN FALSE
  ELSE IF s = <<>> THEN TRUE
  ELSE IF Ord[Head(s)] # Ord[Head(t)] THEN Ord[Head(s)] < Ord[Head(t)]
  ELSE StrLess(Tail(s), Tail(t))

AllDigits(s) == \A i \in 1..Len(s) : s[i] \in Digits

\* the number a non-empty string of digits denotes
RECURSIVE DigitsToNat(_)
DigitsToNat(s) ==
  IF s = <<>> THEN 0
  ELSE DigitsToNat(SubSeq(s, 1, Len(s) - 1)) * 10 + DigitVal[s[Len(s)]]

\* the decimal digits of a natural number
RECURSIVE NatToStr(_)
NatToStr(n) ==
  IF n < 10 THEN <<DigitChar[n + 1]>>
  ELSE NatToStr(n \div 10) \o <<DigitChar[(n % 10) + 1]>>

\* str(n) for an int
\* the digits without the sign
IntToStr_Unsigned(n) == NatToStr(IF n < 0 THEN -n ELSE n)

IntToStr(n) == IF n < 0 THEN <<"-">> \o NatToStr(-n) ELSE NatToStr(n)

\* a natural number as at least w digits, zero padded
RECURSIVE ZeroPad(_, _)
ZeroPad(s, w) == IF Len(s) >= w THEN s ELSE ZeroPad(<<"0">> \o s, w)

(***************************************************************************)
(* Python values as they come out of json.load and csv.DictReader, and as  *)
(* the loader's coercions leave them.                                      *)
(***************************************************************************)
PyNone == [t |-> "none", s |-> <<>>, n |-> 0]
StrVal(s) == [t |-> "str", s |-> s, n |-> 0]
IntVal(n) == [t |-> "int", s |-> <<>>, n |-> n]
BoolVal(b) == [t |-> "bool", s |-> <<>>, n |-> IF b THEN 1 ELSE 0]
ListVal == [t |-> "list", s |-> <<>>, n |-> 0]
DateVal(d) == [t |-> "date", s |-> <<>>, n |-> d]
DecimalVal(n) == [t |-> "decimal", s |-> <<>>, n |-> n]
\* the key is not in the mapping
Absent == [t |-> "absent", s |-> <<>>, n |-> 0]

Keys == {"date", "category", "description", "amount"}

\* mapping.get(key)
Get(mapping, key) == IF mapping[key].t = "absent" THEN PyNone ELSE mapping[key]

\* mapping.get(key, "")
GetOrEmpty(mapping, key) ==
  IF mapping[key].t = "absent" THEN StrVal(<<>>) ELSE mapping[key]

\* str(value)
PyStr(v) ==
  CASE v.t = "str" -> v.s
    [] v.t = "none" -> <<"N", "o", "n", "e">>
    [] v.t = "int" -> IntToStr(v.n)
    [] v.t = "decimal" -> IntToStr(v.n)
    [] v.t = "bool" -> IF v.n = 1 THEN <<"T", "r", "u", "e">>
                                  ELSE <<"F", "a", "l", "s", "e">>
    [] OTHER -> <<"[", "1", "]">>

(***************************************************************************)
(* Errors: the exception class, its message and the field it is about.     *)
(***************************************************************************)
NoError == [exc |-> "", msg |-> "", field |-> ""]
Raise(exc, msg, field) == [exc |-> exc, msg |-> msg, field |-> field]

\* the error kind of section 7 of the specification an exception stands for
ErrorKind(err) ==
  CASE err.msg = "No such input file" -> "NotFound"
    [] err.msg = "Unsupported file type" -> "UnsupportedFormat"
    [] err.msg = "JSON input must be a list of mappings" -> "InvalidStructure"
    [] err.msg = "Missing field" -> "MissingField"
    [] err.msg \in {"Invalid isoformat string", "Unable to parse date value",
                    "ConversionSyntax", "Unable to parse numeric value"}
         -> "MalformedField"
    [] err.msg = "" -> "none"
    [] OTHER -> "unclassified"

Ok(v) == [ok |-> TRUE, val |-> v, err |-> NoError]
Fail(e) == [ok |-> FALSE, val |-> PyNone, err |-> e]

(***************************************************************************)
(* datetime.date                                                           *)
(***************************************************************************)
IsLeap(y) == (y % 4 = 0) /\ ((y % 100 # 0) \/ (y % 400 = 0))

DaysInMonth(y, m) ==
  IF m = 2 THEN (IF IsLeap(y) THEN 29 ELSE 28)
  ELSE IF m \in {4, 6, 9, 11} THEN 30 ELSE 31

MkDate(y, m, d) == y * 10000 + m * 100 + d
Year(d) == d \div 10000
Month(d) == (d \div 100) % 100
Day(d) == d % 100

\* date.fromisoformat(s), the YYYY-MM-DD form
FromIsoFormat(s) ==
  IF /\ Len(s) = 10
     /\ s[5] = "-"
     /\ s[8] = "-"
     /\ AllDigits(SubSeq(s, 1, 4))
     /\ AllDigits(SubSeq(s, 6, 7))
     /\ AllDigits(SubSeq(s, 9, 10))
  THEN LET y == DigitsToNat(SubSeq(s, 1, 4))
           m == DigitsToNat(SubSeq(s, 6, 7))
           d == DigitsToNat(SubSeq(s, 9, 10))
       IN IF y >= 1 /\ m \in 1..12 /\ d >= 1 /\ d <= DaysInMonth(y, m)
            THEN Ok(DateVal(MkDate(y, m, d)))
            ELSE Fail(Raise("ValueError", "Invalid isoformat string", "date"))
  ELSE Fail(Raise("ValueError", "Invalid isoformat string", "date"))

\* date.isoformat()
IsoFormat(d) ==
  ZeroPad(NatToStr(Year(d)), 4) \o <<"-">> \o ZeroPad(NatToStr(Month(d)), 2)
    \o <<"-">> \o ZeroPad(NatToStr(Day(d)), 2)

(***************************************************************************)
(* decimal.Decimal                                                         *)
(***************************************************************************)
\* Decimal(s) for a str: surrounding whitespace is dropped, then an optional
\* sign and digits (the integer literals; the amounts of the model are whole)
DecimalOf(s) ==
  LET u == Strip(s)
      neg == u # <<>> /\ Head(u) = "-"
      body == IF neg THEN Tail(u) ELSE u
  IN IF body # <<>> /\ AllDigits(body)
       THEN Ok(DecimalVal(IF neg THEN -DigitsToNat(body) ELSE DigitsToNat(body)))
       ELSE Fail(Raise("InvalidOperation", "ConversionSyntax", "amount"))

(***************************************************************************)
(* data_sources.py: the field coercions                                    *)
(***************************************************************************)
SUPPORTED_EXTENSIONS == {<<".", "j", "s", "o", "n">>, <<".", "c", "s", "v">>}

Uncategorised ==
  <<"U", "n", "c", "a", "t", "e", "g", "o", "r", "i", "s", "e", "d">>

\* value.strip() or "Uncategorised"; None has no strip
_normalise_category(value) ==
  IF value.t # "str"
    THEN Fail(Raise("AttributeError", "NoneType has no attribute strip",
                    "category"))
    ELSE Ok(StrVal(IF Strip(value.s) = <<>> THEN Uncategorised
                                             ELSE Strip(value.s)))

_coerce_date(mapping, key) ==
  LET raw_value == Get(mapping, key)
  IN CASE raw_value.t = "none" ->
            Fail(Raise("ValueError", "Missing field", key))
       [] raw_value.t = "date" -> Ok(raw_value)
       [] raw_value.t = "str" -> FromIsoFormat(Strip(raw_value.s))
       [] OTHER ->
            Fail(Raise("ValueError", "Unable to parse date value", key))

_coerce_amount(mapping, key) ==
  LET raw_value == Get(mapping, key)
  IN CASE raw_value.t = "none" ->
            Fail(Raise("ValueError", "Missing field", key))
       [] raw_value.t = "decimal" -> Ok(raw_value)
       [] raw_value.t \in {"int", "bool", "str"} -> DecimalOf(PyStr(raw_value))
       [] OTHER ->
            Fail(Raise("ValueError", "Unable to parse numeric value", key))

\* a dict display {"date": .., "category": .., "description": .., "amount": ..}
\* evaluates its values in that order; the first failure is the one raised
YieldDict(d, c, desc, a) ==
  IF ~d.ok THEN Fail(d.err)
  ELSE IF ~c.ok THEN Fail(c.err)
  ELSE IF ~a.ok THEN Fail(a.err)
  ELSE [ok |-> TRUE,
        val |-> [date |-> d.val, category |-> c.val, description |-> desc,
                 amount |-> a.val],
        err |-> NoError]

\* the dict _load_json yields for one element of the payload
JsonItem(raw) ==
  YieldDict(_coerce_date(raw, "date"),
            _normalise_category(StrVal(PyStr(GetOrEmpty(raw, "category")))),
            StrVal(PyStr(GetOrEmpty(raw, "description"))),
            _coerce_amount(raw, "amount"))

\* the dict _load_csv yields for one row of the reader
CsvItem(row) ==
  YieldDict(_coerce_date(row, "date"),
            _normalise_category(GetOrEmpty(row, "category")),
            GetOrEmpty(row, "description"),
            _coerce_amount(row, "amount"))

(***************************************************************************)
(* csv.DictReader: the header names the columns; a row shorter than the    *)
(* header gets None (restval) for the columns it lacks; a column the       *)
(* header does not name is not a key of the row's dict.                    *)
(***************************************************************************)
ColumnOf(header, key) == CHOOSE i \in 1..Len(header) : header[i] = key

DictReaderRow(header, cells) ==
  [k \in Keys |->
     IF \A i \in 1..Len(header) : header[i] # k THEN Absent
     ELSE IF ColumnOf(header, k) <= Len(cells)
            THEN StrVal(cells[ColumnOf(header, k)])
            ELSE PyNone]

(***************************************************************************)
(* models.py: Transaction                                                  *)
(***************************************************************************)
Txn(d, c, desc, a) ==
  [occurred_on |-> d, category |-> c, description |-> desc, amount |-> a]

\* Transaction.from_mapping(data); None stands for a failure
from_mapping(data) ==
  LET raw_date == data.date
      occurred_on ==
        CASE raw_date.t = "date" -> Ok(raw_date)
          [] raw_date.t = "str" -> FromIsoFormat(raw_date.s)
          [] OTHER -> Fail(Raise("TypeError",
                                 "Unsupported date value in transaction mapping",
                                 "date"))
      amount == data.amount
      amount_value ==
        CASE amount.t = "decimal" -> Ok(amount)
          [] amount.t \in {"int", "bool", "str"} -> DecimalOf(PyStr(amount))
          [] OTHER -> Fail(Raise("TypeError",
                                 "Unsupported amount value in transaction mapping",
                                 "amount"))
  IN IF ~occurred_on.ok THEN [ok |-> FALSE, txn |-> <<>>, err |-> occurred_on.err]
     ELSE IF ~amount_value.ok
       THEN [ok |-> FALSE, txn |-> <<>>, err |-> amount_value.err]
     ELSE [ok |-> TRUE,
           txn |-> <<Txn(occurred_on.val.n, PyStr(data.category),
                         PyStr(data.description), amount_value.val.n)>>,
           err |-> NoError]

\* one turn of the list comprehension of load_transactions: the generator
\* yields the next dict and from_mapping turns it into a Transaction
LoadOne(encoding, raw) ==
  LET item == IF encoding = "json" THEN JsonItem(raw) ELSE CsvItem(raw)
  IN IF item.ok THEN from_mapping(item.val)
                ELSE [ok |-> FALSE, txn |-> <<>>, err |-> item.err]

(***************************************************************************)
(* dict and sorted()                                                       *)
(***************************************************************************)
Item(k, v) == [k |-> k, v |-> v]

HasKey(dict, key) == \E i \in 1..Len(dict) : dict[i].k = key

KeysOf(dict) == {dict[i].k : i \in 1..Len(dict)}

Lookup(dict, key) == dict[CHOOSE i \in 1..Len(dict) : dict[i].k = key].v

\* dict[key] = amount in place of dict[key] += amount
AddTo_Overwrite(dict, key, amount) ==
  IF HasKey(dict, key)
    THEN [i \in 1..Len(dict) |->
            IF dict[i].k = key THEN Item(key, amount) ELSE dict[i]]
    ELSE Append(dict, Item(key, amount))

\* defaultdict(lambda: Decimal("0")): dict[key] += amount
AddTo(dict, key, amount) ==
  IF HasKey(dict, key)
    THEN [i \in 1..Len(dict) |->
            IF dict[i].k = key THEN Item(key, dict[i].v + amount) ELSE dict[i]]
    ELSE Append(dict, Item(key, 0 + amount))

\* a < b for two items of a dict: by key, str keys by code point and date
\* keys by calendar order (the keys of a dict are distinct)
ItemLess(keytype, a, b) ==
  IF keytype = "str" THEN StrLess(a.k, b.k) ELSE a.k < b.k

\* the place of x in an ascending sequence (after the items not greater)
RECURSIVE InsertSorted(_, _, _)
InsertSorted(keytype, x, items) ==
  IF items = <<>> THEN <<x>>
  ELSE IF ItemLess(keytype, x, Head(items)) THEN <<x>> \o items
  ELSE <<Head(items)>> \o InsertSorted(keytype, x, Tail(items))

\* sorted(items) (stable)
RECURSIVE Sorted(_, _)
Sorted(keytype, items) ==
  IF items = <<>> THEN <<>>
  ELSE InsertSorted(keytype, items[Len(items)],
                    Sorted(keytype, SubSeq(items, 1, Len(items) - 1)))

\* the items left in insertion order
SortedByCategory_Unsorted(dict) == dict

\* sorted(d.items()) of a dict with str keys, of a dict with date keys
SortedByCategory(dict) == Sorted("str", dict)
\* the day totals left in insertion order
SortedByDay_Unsorted(dict) == dict

SortedByDay(dict) == Sorted("date", dict)

\* sum(values, Decimal("0"))
RECURSIVE SumSeq(_)
SumSeq(values) ==
  IF values = <<>> THEN 0
  ELSE SumSeq(SubSeq(values, 1, Len(values) - 1)) + values[Len(values)]

(***************************************************************************)
(* models.py: ReportSummary; summary.py: summarize_transactions            *)
(***************************************************************************)
ReportSummary(transactions, total_amount, totals_by_category, totals_by_day) ==
  [transactions |-> transactions, total_amount |-> total_amount,
   totals_by_category |-> totals_by_category, totals_by_day |-> totals_by_day]

Amounts(transactions) ==
  [i \in 1..Len(transactions) |-> transactions[i].amount]

\* the loop of summarize_transactions over the first n transactions
RECURSIVE CategoryTotals(_, _)
CategoryTotals(transactions, n) ==
  IF n = 0 THEN <<>>
  ELSE AddTo(CategoryTotals(transactions, n - 1),
             transactions[n].category, transactions[n].amount)

RECURSIVE DayTotals(_, _)
DayTotals(transactions, n) ==
  IF n = 0 THEN <<>>
  ELSE AddTo(DayTotals(transactions, n - 1),
             transactions[n].occurred_on, transactions[n].amount)

summarize_transactions(transactions) ==
  IF transactions = <<>>
    THEN ReportSummary(<<>>, 0, <<>>, <<>>)
    ELSE ReportSummary(
           transactions,
           SumSeq(Amounts(transactions)),
           SortedByCategory(CategoryTotals(transactions, Len(transactions))),
           SortedByDay(DayTotals(transactions, Len(transactions))))

(***************************************************************************)
(* Number and date formatting                                              *)
(***************************************************************************)
Abs(n) == IF n < 0 THEN -n ELSE n

\* an exact quotient of two Decimals
Frac(num, den) == [num |-> num, den |-> den]

\* Decimal.quantize(Decimal("0.01")) of num/den, as a sign and a number of
\* cents: the default context rounds half to even and keeps the sign
QuantizeCents(q) ==
  LET scaled == Abs(q.num) * 100
      low == scaled \div q.den
      rest == scaled % q.den
      up == (2 * rest > q.den) \/ (2 * rest = q.den /\ low % 2 = 1)
  IN [neg |-> q.num < 0, cents |-> IF up THEN low + 1 ELSE low]

\* the digits of n in groups of three separated by commas (format spec ",")
RECURSIVE Grouped(_)
Grouped(n) ==
  IF n < 1000 THEN NatToStr(n)
  ELSE Grouped(n \div 1000) \o <<",">> \o ZeroPad(NatToStr(n % 1000), 3)

\* format_currency(value): f"${quantised:,.2f}"
format_currency(q) ==
  LET c == QuantizeCents(q)
  IN <<"$">> \o (IF c.neg THEN <<"-">> ELSE <<>>) \o Grouped(c.cents \div 100)
       \o <<".">> \o ZeroPad(NatToStr(c.cents % 100), 2)

\* f"${amount:.2f}" of a whole Decimal
Format2f(n) == <<"$">> \o IntToStr(n) \o <<".", "0", "0">>

MonthAbbr ==
  << <<"J", "a", "n">>, <<"F", "e", "b">>, <<"M", "a", "r">>,
     <<"A", "p", "r">>, <<"M", "a", "y">>, <<"J", "u", "n">>,
     <<"J", "u", "l">>, <<"A", "u", "g">>, <<"S", "e", "p">>,
     <<"O", "c", "t">>, <<"N", "o", "v">>, <<"D", "e", "c">> >>

\* day.strftime("%b %d, %Y")
Strftime(d) ==
  MonthAbbr[Month(d)] \o <<" ">> \o ZeroPad(NatToStr(Day(d)), 2)
    \o <<",", " ">> \o ZeroPad(NatToStr(Year(d)), 4)

(***************************************************************************)
(* models.py: ReportSummary.as_dict                                        *)
(***************************************************************************)
as_dict(summary) ==
  [transactions |->
     [i \in 1..Len(summary.transactions) |->
        [date |-> IsoFormat(summary.transactions[i].occurred_on),
         category |-> summary.transactions[i].category,
         description |-> summary.transactions[i].description,
         amount |-> IntToStr(summary.transactions[i].amount)]],
   total_amount |-> IntToStr(summary.total_amount),
   totals_by_category |->
     LET items == SortedByCategory(summary.totals_by_category)
     IN [i \in 1..Len(items) |-> Item(items[i].k, IntToStr(items[i].v))],
   totals_by_day |->
     LET items == SortedByDay(summary.totals_by_day)
     IN [i \in 1..Len(items) |->
           Item(IsoFormat(items[i].k), IntToStr(items[i].v))]]

(***************************************************************************)
(* templates.py: build_markdown_report.  The document is its lines; a line *)
(* is its kind and the texts interpolated into it.                         *)
(***************************************************************************)
Line(kind, cells) == [kind |-> kind, cells |-> cells]

_render_overview(summary) ==
  << Line("h2 overview", <<>>),
     Line("total amount", <<Format2f(summary.total_amount)>>) >>

_render_category_table(summary) ==
  << Line("h2 totals by category", <<>>), Line("blank", <<>>),
     Line("table header", <<>>), Line("table rule", <<>>) >>
  \o [i \in 1..Len(summary.totals_by_category) |->
        Line("category row", <<summary.totals_by_category[i].k,
                               Format2f(summary.totals_by_category[i].v)>>)]

_render_daily_totals(summary) ==
  << Line("h2 totals by day", <<>>), Line("blank", <<>>),
     Line("table header", <<>>), Line("table rule", <<>>) >>
  \o [i \in 1..Len(summary.totals_by_day) |->
        Line("day row", <<IsoFormat(summary.totals_by_day[i].k),
                          Format2f(summary.totals_by_day[i].v)>>)]

\* the report without the short circuit of lines 15-17
build_markdown_report_NoNotice(summary) ==
  << Line("h1", <<>>), Line("blank", <<>>) >>
  \o _render_overview(summary)
  \o << Line("blank", <<>>) >>
  \o _render_category_table(summary)
  \o << Line("blank", <<>>) >>
  \o _render_daily_totals(summary)
  \o << Line("blank", <<>>), Line("h2 transactions", <<>>),
        Line("blank", <<>>), Line("table header", <<>>),
        Line("table rule", <<>>) >>

build_markdown_report(summary) ==
  IF summary.transactions = <<>>
    THEN << Line("h1", <<>>), Line("blank", <<>>), Line("notice", <<>>) >>
    ELSE << Line("h1", <<>>), Line("blank", <<>>) >>
         \o _render_overview(summary)
         \o << Line("blank", <<>>) >>
         \o _render_category_table(summary)
         \o << Line("blank", <<>>) >>
         \o _render_daily_totals(summary)
         \o << Line("blank", <<>>), Line("h2 transactions", <<>>),
               Line("blank", <<>>), Line("table header", <<>>),
               Line("table rule", <<>>) >>
         \o [i \in 1..Len(summary.transactions) |->
               Line("transaction row",
                    <<IsoFormat(summary.transactions[i].occurred_on),
                      summary.transactions[i].category,
                      summary.transactions[i].description,
                      Format2f(summary.transactions[i].amount)>>)]

(***************************************************************************)
(* templates.py: build_html_report.  The document is the values its        *)
(* template interpolates: the KPI cards, the analysis cards, the hero      *)
(* block and the three data sections.                                      *)
(***************************************************************************)
Values(dict) == [i \in 1..Len(dict) |-> dict[i].v]

IsPositive(total) == total > 0
IsNegative(total) == total < 0

total_revenue(summary) ==
  SumSeq(SelectSeq(Values(summary.totals_by_category), IsPositive))

total_expenses_signed(summary) ==
  SumSeq(SelectSeq(Values(summary.totals_by_category), IsNegative))

\* the signed sum shown as it is
total_expenses_NotNegated(summary) == total_expenses_signed(summary)

total_expenses(summary) == -total_expenses_signed(summary)

\* the unsigned expenses added to the revenue
gross_profit_Added(summary) == total_revenue(summary) + total_expenses(summary)

gross_profit(summary) == total_revenue(summary) - total_expenses(summary)

\* the net income taken before expenses
net_income_BeforeExpenses(summary) == total_revenue(summary)

net_income(summary) == summary.total_amount

category_count(summary) == Len(summary.totals_by_category)

revenue_category_count(summary) ==
  Len(SelectSeq(Values(summary.totals_by_category), IsPositive))

expense_category_count(summary) ==
  Len(SelectSeq(Values(summary.totals_by_category), IsNegative))

neutral_category_count(summary) ==
  category_count(summary) - revenue_category_count(summary)
    - expense_category_count(summary)

transaction_count(summary) == Len(summary.transactions)

day_count(summary) == Len(summary.totals_by_day)

average_daily_total(summary) ==
  IF day_count(summary) # 0
    THEN Frac(summary.total_amount, day_count(summary))
    ELSE Frac(0, 1)

average_transaction(summary) ==
  IF transaction_count(summary) # 0
    THEN Frac(SumSeq(Amounts(summary.transactions)), transaction_count(summary))
    ELSE Frac(0, 1)

MinDate(transactions) ==
  CHOOSE d \in {transactions[i].occurred_on : i \in 1..Len(transactions)} :
    \A j \in 1..Len(transactions) : d <= transactions[j].occurred_on

MaxDate(transactions) ==
  CHOOSE d \in {transactions[i].occurred_on : i \in 1..Len(transactions)} :
    \A j \in 1..Len(transactions) : d >= transactions[j].occurred_on

\* report_start and report_end of the hero block; <<>> when unavailable
hero_period(summary) ==
  IF summary.transactions # <<>>
    THEN << Strftime(MinDate(summary.transactions)),
            Strftime(MaxDate(summary.transactions)) >>
    ELSE <<>>

\* a zero total tagged as revenue
Pill_ZeroIsRevenue(total) == IF total >= 0 THEN "Revenue" ELSE "Expense"

\* the pill of a category row
Pill(total) ==
  IF total > 0 THEN "Revenue" ELSE IF total < 0 THEN "Expense" ELSE "Neutral"

Section(empty, rows) == [empty_state |-> empty, rows |-> rows]

build_category_section(summary) ==
  IF summary.totals_by_category = <<>>
    THEN Section(TRUE, <<>>)
    ELSE Section(FALSE,
           [i \in 1..Len(summary.totals_by_category) |->
              << summary.totals_by_category[i].k,
                 format_currency(Frac(summary.totals_by_category[i].v, 1)),
                 <<Pill(summary.totals_by_category[i].v)>> >>])

\* the daily section deciding on the transaction list
build_daily_section_ByTransactions(summary) ==
  IF summary.transactions = <<>>
    THEN Section(TRUE, <<>>)
    ELSE LET items == SortedByDay(summary.totals_by_day)
         IN Section(FALSE,
              [i \in 1..Len(items) |->
                 << Strftime(items[i].k),
                    format_currency(Frac(items[i].v, 1)) >>])

build_daily_section(summary) ==
  IF summary.totals_by_day = <<>>
    THEN Section(TRUE, <<>>)
    ELSE LET items == SortedByDay(summary.totals_by_day)
         IN Section(FALSE,
              [i \in 1..Len(items) |->
                 << Strftime(items[i].k),
                    format_currency(Frac(items[i].v, 1)) >>])

build_transaction_section(summary) ==
  IF summary.transactions = <<>>
    THEN Section(TRUE, <<>>)
    ELSE Section(FALSE,
           [i \in 1..Len(summary.transactions) |->
              << Strftime(summary.transactions[i].occurred_on),
                 summary.transactions[i].category,
                 summary.transactions[i].description,
                 format_currency(Frac(summary.transactions[i].amount, 1)) >>])

\* the hero line as an f-string: generated_on reaches the document
build_html_report_FString(summary, today) ==
  LET generated_on == Strftime(today)
  IN [kpi_cards |->
        [total_revenue |-> format_currency(Frac(total_revenue(summary), 1)),
         total_expenses |-> format_currency(Frac(total_expenses(summary), 1)),
         gross_profit |-> format_currency(Frac(gross_profit(summary), 1)),
         net_income |-> format_currency(Frac(net_income(summary), 1))],
      analysis_cards |->
        [category_count |-> NatToStr(category_count(summary)),
         revenue_category_count |-> NatToStr(revenue_category_count(summary)),
         expense_category_count |-> NatToStr(expense_category_count(summary)),
         neutral_category_count |-> IntToStr(neutral_category_count(summary)),
         average_daily_total |-> format_currency(average_daily_total(summary)),
         average_transaction |-> format_currency(average_transaction(summary))],
      hero_generated |-> generated_on,
      hero_period |-> hero_period(summary),
      hero_transactions |-> << NatToStr(transaction_count(summary)),
                               NatToStr(category_count(summary)) >>,
      category_section |-> build_category_section(summary),
      daily_section |-> build_daily_section(summary),
      transaction_section |-> build_transaction_section(summary)]

\* today is date.today(), read into generated_on; the template line that
\* names generated_on is not an f-string, so the value is not interpolated
build_html_report(summary, today) ==
  LET generated_on == Strftime(today)
  IN [kpi_cards |->
        [total_revenue |-> format_currency(Frac(total_revenue(summary), 1)),
         total_expenses |-> format_currency(Frac(total_expenses(summary), 1)),
         gross_profit |-> format_currency(Frac(gross_profit(summary), 1)),
         net_income |-> format_currency(Frac(net_income(summary), 1))],
      analysis_cards |->
        [category_count |-> NatToStr(category_count(summary)),
         revenue_category_count |-> NatToStr(revenue_category_count(summary)),
         expense_category_count |-> NatToStr(expense_category_count(summary)),
         neutral_category_count |-> IntToStr(neutral_category_count(summary)),
         average_daily_total |-> format_currency(average_daily_total(summary)),
         average_transaction |-> format_currency(average_transaction(summary))],
      hero_generated |-> <<"{", "g", "e", "n", "e", "r", "a", "t", "e", "d",
                           "_", "o", "n", "}">>,
      hero_period |-> hero_period(summary),
      hero_transactions |-> << NatToStr(transaction_count(summary)),
                               NatToStr(category_count(summary)) >>,
      category_section |-> build_category_section(summary),
      daily_section |-> build_daily_section(summary),
      transaction_section |-> build_transaction_section(summary)]

(***************************************************************************)
(* The inputs of the model: input files, command lines, transaction        *)
(* sequences and hand-built summaries.                                     *)
(***************************************************************************)
SeqsUpTo(S, n) == UNION {[1..m -> S] : m \in 0..n}

Jan01 == <<"2", "0", "2", "4", "-", "0", "1", "-", "0", "1">>
Jan02 == <<"2", "0", "2", "4", "-", "0", "1", "-", "0", "2">>
PaddedJan01 == <<" ">> \o Jan01 \o <<" ">>
Feb30 == <<"2", "0", "2", "4", "-", "0", "2", "-", "3", "0">>
NotADate == <<"n", "o", "t", "-", "a", "-", "d", "a", "t", "e">>

\* a record of a JSON payload or a row dict of the csv reader
Mapping(d, c, desc, a) ==
  [k \in Keys |->
     CASE k = "date" -> d
       [] k = "category" -> c
       [] k = "description" -> desc
       [] k = "amount" -> a]

JsonDates ==
  {Absent, PyNone, StrVal(Jan01), StrVal(Jan02), StrVal(PaddedJan01),
   StrVal(NotADate), IntVal(5)}

JsonAmounts ==
  {Absent, PyNone, IntVal(5), IntVal(0), StrVal(<<"a", "b", "c">>),
   BoolVal(TRUE), ListVal}

JsonCategories ==
  {Absent, PyNone, StrVal(<<>>), StrVal(<<" ", "A", " ">>), StrVal(<<"B">>)}

JsonDescriptions ==
  {Absent, PyNone, StrVal(<<"d">>), StrVal(<<" ", "d", " ">>)}

\* the records of the JSON payloads: one good record with one field varied,
\* and two records with both required fields at fault
JsonRecords ==
  {Mapping(d, StrVal(<<"B">>), StrVal(<<"d">>), IntVal(5)) : d \in JsonDates}
  \cup {Mapping(StrVal(Jan01), StrVal(<<"B">>), StrVal(<<"d">>), a) :
          a \in JsonAmounts}
  \cup {Mapping(StrVal(Jan01), c, StrVal(<<"d">>), IntVal(5)) :
          c \in JsonCategories}
  \cup {Mapping(StrVal(Jan01), StrVal(<<"B">>), desc, IntVal(5)) :
          desc \in JsonDescriptions}
  \cup {Mapping(Absent, StrVal(<<"B">>), StrVal(<<"d">>),
                StrVal(<<"a", "b", "c">>)),
        Mapping(StrVal(NotADate), StrVal(<<"B">>), StrVal(<<"d">>), PyNone)}

CsvCells(key) ==
  CASE key = "date" -> {Jan01, Feb30, PaddedJan01, NotADate}
    [] key = "amount" -> {<<"5">>, <<"-", "5">>, <<"a", "b", "c">>, <<>>}
    [] key = "category" -> {<<"B">>, <<" ", "A", " ">>, <<>>, <<" ">>}
    [] key = "description" -> {<<"d">>, <<" ", "d", " ">>, <<>>}

CsvBaseCell(key) ==
  CASE key = "date" -> Jan01
    [] key = "amount" -> <<"5">>
    [] key = "category" -> <<"B">>
    [] key = "description" -> <<"d">>

StandardHeader == <<"date", "category", "description", "amount">>

\* headers with the columns in another order, and without the optional ones
OtherHeaders ==
  {<<"date", "amount", "category", "description">>, <<"date", "amount">>}

\* the good row under a header, whole and cut short after 1, 2, ... cells
ShortRows(header) ==
  {[i \in 1..n |-> CsvBaseCell(header[i])] : n \in 1..Len(header)}

\* the good row under a header with one cell varied
VariedRows(header) ==
  {[i \in 1..Len(header) |->
      IF i = jc[1] THEN jc[2] ELSE CsvBaseCell(header[i])] :
     jc \in UNION {{<<j, c>> : c \in CsvCells(header[j])} :
                    j \in 1..Len(header)}}

DotJson == <<".", "j", "s", "o", "n">>
DotJsonUpper == <<".", "J", "S", "O", "N">>
DotCsv == <<".", "c", "s", "v">>
DotTxt == <<".", "t", "x", "t">>

\* an input path and what is behind it
InputFile(exists, suffix, is_list, payload, header, rows) ==
  [exists |-> exists, suffix |-> suffix, is_list |-> is_list,
   payload |-> payload, header |-> header, rows |-> rows]

GoodPayload ==
  <<Mapping(StrVal(Jan01), StrVal(<<"B">>), StrVal(<<"d">>), IntVal(5))>>

InputFiles ==
  {InputFile(TRUE, DotJson, TRUE, p, <<>>, <<>>) :
     p \in SeqsUpTo(JsonRecords, MaxRecords)}
  \cup {InputFile(TRUE, DotJson, FALSE, <<>>, <<>>, <<>>),
        InputFile(TRUE, DotJsonUpper, TRUE, GoodPayload, <<>>, <<>>),
        InputFile(TRUE, DotTxt, TRUE, GoodPayload, <<>>, <<>>),
        InputFile(TRUE, <<>>, TRUE, GoodPayload, <<>>, <<>>),
        InputFile(FALSE, DotJson, TRUE, <<>>, <<>>, <<>>),
        InputFile(FALSE, DotCsv, TRUE, <<>>, <<>>, <<>>),
        InputFile(FALSE, DotTxt, TRUE, <<>>, <<>>, <<>>)}
  \cup {InputFile(TRUE, DotCsv, TRUE, <<>>, StandardHeader, r) :
          r \in SeqsUpTo(VariedRows(StandardHeader)
                           \cup ShortRows(StandardHeader), MaxRecords)}
  \cup UNION {{InputFile(TRUE, DotCsv, TRUE, <<>>, h, r) :
                 r \in SeqsUpTo(ShortRows(h), MaxRecords)} :
               h \in OtherHeaders}

\* args: the format, whether --output names a file, and --pretty
Args ==
  {[format |-> "markdown", output |-> FALSE, pretty |-> FALSE],
   [format |-> "html", output |-> TRUE, pretty |-> FALSE],
   [format |-> "json", output |-> TRUE, pretty |-> TRUE],
   [format |-> "json", output |-> FALSE, pretty |-> FALSE]}

(***************************************************************************)
(* The state of one run of generate_report (cli.py).                       *)
(***************************************************************************)
VARIABLES
  pc,            \* where the run is
  file,          \* the input path and its content
  args,          \* the parsed command line
  fileRead,      \* the input file has been opened and read
  idx,           \* records the loader has taken from the file so far
  partial,       \* the list the comprehension of load_transactions is building
  transactions,  \* what load_transactions returned: <<>> or <<list>>
  error,         \* the exception that ended the run, NoError if none
  summary,       \* what summarize_transactions returned: <<>> or <<summary>>
  rendered,      \* the document the renderer returned: <<>> or <<document>>
  outFile,       \* what was written to args.output: <<>> or <<document>>
  stdout         \* what was printed: <<>> or <<document>>

vars ==
  <<pc, file, args, fileRead, idx, partial, transactions, error, summary,
    rendered, outFile, stdout>>

\* the encoding load_transactions picks by suffix (line 40)
Encoding(f) == IF Lower(f.suffix) = DotJson THEN "json" ELSE "csv"

\* the records of the file, as the generator of its encoding walks them
Records(f) ==
  IF Encoding(f) = "json" THEN f.payload
  ELSE [i \in 1..Len(f.rows) |-> DictReaderRow(f.header, f.rows[i])]

\* the suffix checked before the existence of the path
PathCheck_SuffixFirst(f) ==
  IF Lower(f.suffix) \notin SUPPORTED_EXTENSIONS
    THEN Raise("ValueError", "Unsupported file type", "suffix")
  ELSE IF ~f.exists
    THEN Raise("FileNotFoundError", "No such input file", "path")
  ELSE NoError

\* the first two checks of load_transactions, in their order
PathCheck(f) ==
  IF ~f.exists THEN Raise("FileNotFoundError", "No such input file", "path")
  ELSE IF Lower(f.suffix) \notin SUPPORTED_EXTENSIONS
    THEN Raise("ValueError", "Unsupported file type", "suffix")
  ELSE NoError

\* an exception leaves generate_report: the frames and their locals are gone
Abort(err) ==
  /\ pc' = "failed"
  /\ error' = err
  /\ partial' = <<>>

Init ==
  /\ pc = "start"
  /\ file \in InputFiles
  /\ args \in Args
  /\ fileRead = FALSE
  /\ idx = 0
  /\ partial = <<>>
  /\ transactions = <<>>
  /\ error = NoError
  /\ summary = <<>>
  /\ rendered = <<>>
  /\ outFile = <<>>
  /\ stdout = <<>>

\* load_transactions, lines 31-38
CheckPath ==
  /\ pc = "start"
  /\ IF PathCheck(file) # NoError
       THEN Abort(PathCheck(file))
       ELSE pc' = "open" /\ UNCHANGED <<error, partial>>
  /\ UNCHANGED <<file, args, fileRead, idx, transactions, summary, rendered,
                 outFile, stdout>>

\* _load_json lines 49-54, _load_csv lines 66-67
OpenFile ==
  /\ pc = "open"
  /\ fileRead' = TRUE
  /\ IF Encoding(file) = "json" /\ ~file.is_list
       THEN Abort(Raise("ValueError", "JSON input must be a list of mappings",
                        "payload"))
       ELSE pc' = "loading" /\ UNCHANGED <<error, partial>>
  /\ UNCHANGED <<file, args, idx, transactions, summary, rendered, outFile,
                 stdout>>

\* a record that fails is skipped and the load goes on
LoadRecord_SkipBad ==
  /\ pc = "loading"
  /\ idx < Len(Records(file))
  /\ idx' = idx + 1
  /\ LET r == LoadOne(Encoding(file), Records(file)[idx + 1])
     IN partial' = IF r.ok THEN partial \o r.txn ELSE partial
  /\ UNCHANGED <<pc, error, file, args, fileRead, transactions, summary,
                 rendered, outFile, stdout>>

\* one record through the generator and Transaction.from_mapping (line 45)
LoadRecord ==
  /\ pc = "loading"
  /\ idx < Len(Records(file))
  /\ idx' = idx + 1
  /\ LET r == LoadOne(Encoding(file), Records(file)[idx + 1])
     IN IF r.ok
          THEN /\ partial' = partial \o r.txn
               /\ UNCHANGED <<pc, error>>
          ELSE Abort(r.err)
  /\ UNCHANGED <<file, args, fileRead, transactions, summary, rendered,
                 outFile, stdout>>

\* the generator is exhausted: load_transactions returns the list
FinishLoad ==
  /\ pc = "loading"
  /\ idx = Len(Records(file))
  /\ transactions' = <<partial>>
  /\ pc' = "loaded"
  /\ UNCHANGED <<file, args, fileRead, idx, partial, error, summary, rendered,
                 outFile, stdout>>

\* cli.py line 49
Summarize ==
  /\ pc = "loaded"
  /\ summary' = <<summarize_transactions(transactions[1])>>
  /\ pc' = "summarized"
  /\ UNCHANGED <<file, args, fileRead, idx, partial, transactions, error,
                 rendered, outFile, stdout>>

Days == {20240101, 20240102}

\* the document of one format: cli.py lines 51-59
Document(format, pretty, s, today) ==
  [format |-> format,
   pretty |-> pretty,
   markdown |-> IF format = "markdown" THEN <<build_markdown_report(s)>>
                                       ELSE <<>>,
   html |-> IF format = "html" THEN <<build_html_report(s, today)>> ELSE <<>>,
   json |-> IF format = "json" THEN <<as_dict(s)>> ELSE <<>>]

\* a renderer that pops the transactions off the Summary's list as it
\* lists them
Render_Drains ==
  /\ pc = "summarized"
  /\ \E today \in Days :
       rendered' = <<Document(args.format, args.pretty, summary[1], today)>>
  /\ summary' = <<[summary[1] EXCEPT !.transactions = <<>>]>>
  /\ pc' = "rendered"
  /\ UNCHANGED <<file, args, fileRead, idx, partial, transactions, error,
                 outFile, stdout>>

Render ==
  /\ pc = "summarized"
  /\ \E today \in Days :
       rendered' = <<Document(args.format, args.pretty, summary[1], today)>>
  /\ pc' = "rendered"
  /\ UNCHANGED <<file, args, fileRead, idx, partial, transactions, error,
                 summary, outFile, stdout>>

\* cli.py lines 61-66
Emit ==
  /\ pc = "rendered"
  /\ IF args.output
       THEN outFile' = rendered /\ UNCHANGED stdout
       ELSE stdout' = rendered /\ UNCHANGED outFile
  /\ pc' = "done"
  /\ UNCHANGED <<file, args, fileRead, idx, partial, transactions, error,
                 summary, rendered>>

Next ==
  \/ CheckPath
  \/ OpenFile
  \/ LoadRecord
  \/ FinishLoad
  \/ Summarize
  \/ Render
  \/ Emit

Spec == Init /\ [][Next]_vars

(***************************************************************************)
(* The aggregator called on its own: any sequence of transactions.         *)
(***************************************************************************)
CategoryNames == {<<"B">>, <<"A">>, <<"A", "b">>}

TxnDomain ==
  {Txn(d, c, <<"d">>, a) : d \in Days, c \in CategoryNames, a \in {-5, 0, 5}}

NoFile == InputFile(FALSE, <<>>, TRUE, <<>>, <<>>, <<>>)

NoArgs == [format |-> "markdown", output |-> FALSE, pretty |-> FALSE]

InitAgg ==
  /\ pc = "loaded"
  /\ transactions \in {<<t>> : t \in SeqsUpTo(TxnDomain, MaxTxns)}
  /\ file = NoFile
  /\ args = NoArgs
  /\ fileRead = FALSE
  /\ idx = 0
  /\ partial = <<>>
  /\ error = NoError
  /\ summary = <<>>
  /\ rendered = <<>>
  /\ outFile = <<>>
  /\ stdout = <<>>

NextAgg == Summarize

SpecAgg == InitAgg /\ [][NextAgg]_vars

(***************************************************************************)
(* The renderers called on their own: any ReportSummary, built by hand as  *)
(* tests/test_templates.py builds one, its maps in any insertion order.    *)
(***************************************************************************)
DistinctKeys(dict) ==
  \A i, j \in 1..Len(dict) : dict[i].k = dict[j].k => i = j

\* the dicts of at most n items with keys in K and values in V
Dicts(K, V, n) ==
  {d \in SeqsUpTo({Item(k, v) : k \in K, v \in V}, n) : DistinctKeys(d)}

ShownTxnLists ==
  {<<>>,
   <<Txn(20240102, <<"B">>, <<"d">>, 5)>>,
   <<Txn(20240102, <<"B">>, <<"d">>, 5), Txn(20240101, <<"A">>, <<"d">>, -5)>>}

HandBuiltSummaries ==
  {ReportSummary(t, total, c, d) :
     t \in ShownTxnLists, total \in {0, 5},
     c \in Dicts(CategoryNames, {-5, 0, 5}, MaxItems),
     d \in Dicts(Days, {-5, 5}, MaxItems)}

InitRender ==
  /\ pc = "summarized"
  /\ summary \in {<<s>> : s \in HandBuiltSummaries}
  /\ args \in Args
  /\ file = NoFile
  /\ fileRead = FALSE
  /\ idx = 0
  /\ partial = <<>>
  /\ transactions = <<>>
  /\ error = NoError
  /\ rendered = <<>>
  /\ outFile = <<>>
  /\ stdout = <<>>

NextRender == Render \/ Emit

SpecRender == InitRender /\ [][NextRender]_vars

(***************************************************************************)
(* The aggregator followed by a renderer, as lines 49-66 of cli.py chain   *)
(* them, on any sequence of transactions.                                  *)
(***************************************************************************)
ReportTxnDomain ==
  {Txn(d, c, <<"d">>, a) :
     d \in Days, c \in {<<"B">>, <<"A">>}, a \in {-5, 0, 5}}

InitReport ==
  /\ pc = "loaded"
  /\ transactions \in {<<t>> : t \in SeqsUpTo(ReportTxnDomain, MaxTxns)}
  /\ args \in Args
  /\ file = NoFile
  /\ fileRead = FALSE
  /\ idx = 0
  /\ partial = <<>>
  /\ error = NoError
  /\ summary = <<>>
  /\ rendered = <<>>
  /\ outFile = <<>>
  /\ stdout = <<>>

NextReport == Summarize \/ Render \/ Emit

SpecReport == InitReport /\ [][NextReport]_vars

(***************************************************************************)
(* The aggregator called on the sequences whose order the caller may       *)
(* change: transactions of two categories and two days, credits and debits.*)
(***************************************************************************)
OrderTxnDomain ==
  {Txn(d, c, <<"d">>, a) : d \in Days, c \in {<<"B">>, <<"A">>}, a \in {-5, 5}}

InitOrder ==
  /\ pc = "loaded"
  /\ transactions \in {<<t>> : t \in SeqsUpTo(OrderTxnDomain, MaxTxns)}
  /\ file = NoFile
  /\ args = NoArgs
  /\ fileRead = FALSE
  /\ idx = 0
  /\ partial = <<>>
  /\ error = NoError
  /\ summary = <<>>
  /\ rendered = <<>>
  /\ outFile = <<>>
  /\ stdout = <<>>

NextOrder == Summarize

SpecOrder == InitOrder /\ [][NextOrder]_vars

(***************************************************************************)
(* Properties.                                                             *)
(***************************************************************************)
\* the sum of f over the finite set S of its arguments
RECURSIVE SetSum(_, _)
SetSum(f, S) ==
  IF S = {} THEN 0
  ELSE LET x == CHOOSE y \in S : TRUE IN f[x] + SetSum(f, S \ {x})

\* C1: for a non-empty sequence of transactions, the summary's total_amount
\* is the sum of all amounts, the sum of the totals_by_category values and
\* the sum of the totals_by_day values.
C1_TotalsAgree ==
  (summary # <<>> /\ transactions # <<>> /\ transactions[1] # <<>>) =>
    LET s == summary[1]
        txns == transactions[1]
    IN /\ s.total_amount = SetSum(Amounts(txns), 1..Len(txns))
       /\ s.total_amount
            = SetSum(Values(s.totals_by_category),
                     1..Len(s.totals_by_category))
       /\ s.total_amount
            = SetSum(Values(s.totals_by_day), 1..Len(s.totals_by_day))

\* three transactions in two categories on two days, summarized
C1_Witness ==
  /\ summary # <<>>
  /\ Len(summary[1].transactions) = 3
  /\ Len(summary[1].totals_by_category) = 2
  /\ Len(summary[1].totals_by_day) = 2
  /\ summary[1].total_amount = 5

\* C7: the keys of totals_by_category are exactly the categories of the
\* input and the keys of totals_by_day exactly its dates, each key once, and
\* the maps iterate in ascending lexicographic and chronological order.
C7_KeysExactAndSorted ==
  (summary # <<>> /\ transactions # <<>>) =>
    LET s == summary[1]
        txns == transactions[1]
        cats == s.totals_by_category
        days == s.totals_by_day
    IN /\ KeysOf(cats) = {txns[i].category : i \in 1..Len(txns)}
       /\ KeysOf(days) = {txns[i].occurred_on : i \in 1..Len(txns)}
       /\ Len(cats) = Cardinality(KeysOf(cats))
       /\ Len(days) = Cardinality(KeysOf(days))
       /\ \A i, j \in 1..Len(cats) : i < j => StrLess(cats[i].k, cats[j].k)
       /\ \A i, j \in 1..Len(days) : i < j => days[i].k < days[j].k

\* the input meets B, then Ab, then A, and the later day first
C7_Witness ==
  /\ summary # <<>>
  /\ transactions # <<>>
  /\ Len(transactions[1]) = 3
  /\ transactions[1][1].category = <<"B">>
  /\ transactions[1][2].category = <<"A", "b">>
  /\ transactions[1][3].category = <<"A">>
  /\ transactions[1][1].occurred_on = 20240102
  /\ transactions[1][2].occurred_on = 20240101
  /\ Len(summary[1].totals_by_category) = 3

\* nothing has come out of the run: no transaction list, no summary, no
\* document, nothing written and nothing printed
NothingProduced ==
  /\ transactions = <<>>
  /\ summary = <<>>
  /\ rendered = <<>>
  /\ outFile = <<>>
  /\ stdout = <<>>

\* the path passes the checks of the loader and the payload has its shape
Loadable(f) ==
  /\ f.exists
  /\ f.suffix \in {DotJson, DotJsonUpper, DotCsv}
  /\ f.is_list

\* the required field of the record is missing, or is there and malformed
RequiredFieldFault(raw) ==
  ~_coerce_date(raw, "date").ok \/ ~_coerce_amount(raw, "amount").ok

\* C2: a record with a missing or malformed required field at any position
\* aborts the whole run: load_transactions returns no list, the aggregator
\* and the renderer never run, nothing is written and nothing is printed.
C2_FaultAbortsRun ==
  /\ (ErrorKind(error) \in {"MissingField", "MalformedField"}) =>
       (pc = "failed" /\ NothingProduced)
  /\ (Loadable(file)
      /\ \E i \in 1..Len(Records(file)) :
           RequiredFieldFault(Records(file)[i])) =>
       (pc \in {"start", "open", "loading", "failed"} /\ NothingProduced)
  /\ \A i \in 1..idx :
       RequiredFieldFault(Records(file)[i]) => (pc = "failed" /\ i = idx)

\* the second record lacks its amount: the first, valid one is not returned
C2_Witness ==
  /\ pc = "failed"
  /\ idx = 2
  /\ ErrorKind(error) = "MissingField"
  /\ error.field = "amount"
  /\ ~RequiredFieldFault(Records(file)[1])
  /\ NothingProduced

\* C4: a path that does not exist fails with NotFound and an existing path
\* with an extension outside the supported set with UnsupportedFormat; in
\* neither case is the file read or a Transaction produced.
C4_PathErrors ==
  /\ (pc # "start" /\ ~file.exists) =>
       /\ pc = "failed"
       /\ ErrorKind(error) = "NotFound"
       /\ ~fileRead /\ idx = 0 /\ partial = <<>> /\ NothingProduced
  /\ (pc # "start" /\ file.exists
      /\ file.suffix \notin {DotJson, DotJsonUpper, DotCsv}) =>
       /\ pc = "failed"
       /\ ErrorKind(error) = "UnsupportedFormat"
       /\ ~fileRead /\ idx = 0 /\ partial = <<>> /\ NothingProduced

\* a path that does not exist and has an unsupported extension: NotFound
C4_Witness ==
  /\ pc = "failed"
  /\ ~file.exists
  /\ file.suffix = DotTxt
  /\ ErrorKind(error) = "NotFound"

\* the field is not supplied: the key is not there, or it holds None (the
\* cell a short row lacks, a null)
Missing(raw, key) == Get(raw, key).t = "none"

\* a date value, or a str in the strict YYYY-MM-DD form
StrictDate(v) == v.t = "date" \/ (v.t = "str" /\ FromIsoFormat(v.s).ok)

\* an exact decimal, or a number or str that converts to one
Convertible(v) ==
  v.t = "decimal" \/ (v.t \in {"int", "str"} /\ DecimalOf(PyStr(v)).ok)

\* the error kinds the specification gives a record
ClaimedKinds(raw) ==
  (IF Missing(raw, "date") \/ Missing(raw, "amount")
     THEN {"MissingField"} ELSE {})
  \cup
  (IF \/ (~Missing(raw, "date") /\ ~StrictDate(raw["date"]))
      \/ (~Missing(raw, "amount") /\ ~Convertible(raw["amount"]))
     THEN {"MalformedField"} ELSE {})

\* C3: in both encodings a record without its date or amount fails with
\* MissingField, and one whose date is not a date value or a strict
\* YYYY-MM-DD string, or whose amount does not convert to an exact decimal,
\* fails with MalformedField; no such record yields a Transaction.
C3_FieldErrorKinds ==
  \A i \in 1..idx :
    ClaimedKinds(Records(file)[i]) # {} =>
      /\ pc = "failed"
      /\ i = idx
      /\ ErrorKind(error) \in ClaimedKinds(Records(file)[i])

\* the date and the amount of a record, as loaded
LoadedDate(raw) == _coerce_date(raw, "date").val.n
LoadedAmount(raw) == _coerce_amount(raw, "amount").val.n

\* C5: when every record of the file is valid, load_transactions returns one
\* Transaction per record, in the order of the file.
C5_OneTransactionPerRecord ==
  (Loadable(file)
   /\ \A i \in 1..Len(Records(file)) : ClaimedKinds(Records(file)[i]) = {}) =>
    /\ pc # "failed"
    /\ pc = "loading" => Len(partial) = idx
    /\ pc \in {"loaded", "summarized", "rendered", "done"} =>
         /\ Len(transactions[1]) = Len(Records(file))
         /\ \A i \in 1..Len(Records(file)) :
              /\ transactions[1][i].occurred_on = LoadedDate(Records(file)[i])
              /\ transactions[1][i].amount = LoadedAmount(Records(file)[i])

\* the category the specification gives a record
ClaimedCategory(raw) ==
  IF Missing(raw, "category") \/ Strip(raw["category"].s) = <<>>
    THEN Uncategorised
    ELSE Strip(raw["category"].s)

\* C6: the category of a loaded Transaction is the source category with its
\* surrounding whitespace removed, and "Uncategorised" when the source
\* category is missing, empty or only whitespace; it is never empty.
C6_CategoryNormalised ==
  \A i \in 1..idx :
    ~RequiredFieldFault(Records(file)[i]) =>
      IF pc = "failed"
        THEN i < idx
        ELSE /\ partial[i].category = ClaimedCategory(Records(file)[i])
             /\ partial[i].category # <<>>

\* the keys of a dict in ascending order
AscendingCategories(dict) ==
  CHOOSE q \in [1..Len(dict) -> KeysOf(dict)] :
    \A i, j \in 1..Len(dict) : i < j => StrLess(q[i], q[j])

AscendingDays(dict) ==
  CHOOSE q \in [1..Len(dict) -> KeysOf(dict)] :
    \A i, j \in 1..Len(dict) : i < j => q[i] < q[j]

IsCategoryRow(line) == line.kind = "category row"
IsDayRow(line) == line.kind = "day row"

\* C8: whatever the insertion order of the maps of the Summary, each of the
\* three renderers emits the category entries in ascending lexicographic
\* order and the day entries in ascending chronological order.
C8_RenderersEmitSorted ==
  rendered # <<>> =>
    LET s == summary[1]
        cats == AscendingCategories(s.totals_by_category)
        days == AscendingDays(s.totals_by_day)
        doc == rendered[1]
    IN /\ doc.format = "json" =>
            /\ [i \in 1..Len(doc.json[1].totals_by_category) |->
                  doc.json[1].totals_by_category[i].k] = cats
            /\ [i \in 1..Len(doc.json[1].totals_by_day) |->
                  doc.json[1].totals_by_day[i].k]
                 = [i \in 1..Len(days) |-> IsoFormat(days[i])]
       /\ (doc.format = "markdown" /\ s.transactions # <<>>) =>
            LET crows == SelectSeq(doc.markdown[1], IsCategoryRow)
                drows == SelectSeq(doc.markdown[1], IsDayRow)
            IN /\ [i \in 1..Len(crows) |-> crows[i].cells[1]] = cats
               /\ [i \in 1..Len(drows) |-> drows[i].cells[1]]
                    = [i \in 1..Len(days) |-> IsoFormat(days[i])]
       /\ doc.format = "html" =>
            LET crows == doc.html[1].category_section.rows
                drows == doc.html[1].daily_section.rows
            IN /\ [i \in 1..Len(crows) |-> crows[i][1]] = cats
               /\ [i \in 1..Len(drows) |-> drows[i][1]]
                    = [i \in 1..Len(days) |-> Strftime(days[i])]

\* C9: the styled document computes total_revenue as the sum of the category
\* totals above zero, total_expenses as the negated sum of those below zero,
\* never negative and shown without a minus sign, and gross_profit as
\* total_revenue minus total_expenses.
C9_RevenueExpenses ==
  (rendered # <<>> /\ rendered[1].format = "html") =>
    LET s == summary[1]
        totals == Values(s.totals_by_category)
        revenue == SetSum(totals, {i \in 1..Len(totals) : totals[i] > 0})
        expenses == -SetSum(totals, {i \in 1..Len(totals) : totals[i] < 0})
        kpi == rendered[1].html[1].kpi_cards
    IN /\ total_revenue(s) = revenue
       /\ total_expenses(s) = expenses
       /\ total_expenses(s) >= 0
       /\ gross_profit(s) = revenue - expenses
       /\ kpi.total_revenue = format_currency(Frac(revenue, 1))
       /\ kpi.total_expenses = format_currency(Frac(expenses, 1))
       /\ kpi.gross_profit = format_currency(Frac(revenue - expenses, 1))
       /\ \A i \in 1..Len(kpi.total_expenses) : kpi.total_expenses[i] # "-"

\* a styled document of a summary with a revenue and an expense category
C9_Witness ==
  /\ rendered # <<>>
  /\ rendered[1].format = "html"
  /\ total_revenue(summary[1]) = 5
  /\ total_expenses(summary[1]) = 5
  /\ gross_profit(summary[1]) = 0
  /\ summary[1].total_amount = 5

HasPill(row, tag) == row[3] = <<tag>>

WithoutZeroTotals(s) ==
  [s EXCEPT !.totals_by_category =
     SelectSeq(s.totals_by_category, LAMBDA item : item.v # 0)]

\* C10: the styled document tags every category by the sign of its total as
\* exactly one of Revenue, Expense and Neutral; a zero total is Neutral and
\* adds nothing to total_revenue or total_expenses; the revenue, expense and
\* neutral counts add up to the number of categories and the neutral count
\* is never negative.
C10_SignClassification ==
  (rendered # <<>> /\ rendered[1].format = "html") =>
    LET s == summary[1]
        cats == s.totals_by_category
        doc == rendered[1].html[1]
        rows == doc.category_section.rows
        Count(tag) == Cardinality({i \in 1..Len(rows) : HasPill(rows[i], tag)})
    IN /\ Len(rows) = Len(cats)
       /\ \A i \in 1..Len(rows) :
            /\ rows[i][1] = cats[i].k
            /\ HasPill(rows[i], "Revenue") <=> cats[i].v > 0
            /\ HasPill(rows[i], "Expense") <=> cats[i].v < 0
            /\ HasPill(rows[i], "Neutral") <=> cats[i].v = 0
       /\ revenue_category_count(s) = Count("Revenue")
       /\ expense_category_count(s) = Count("Expense")
       /\ neutral_category_count(s) = Count("Neutral")
       /\ neutral_category_count(s) >= 0
       /\ Count("Revenue") + Count("Expense") + Count("Neutral")
            = category_count(s)
       /\ doc.analysis_cards.neutral_category_count
            = NatToStr(Count("Neutral"))
       /\ total_revenue(WithoutZeroTotals(s)) = total_revenue(s)
       /\ total_expenses(WithoutZeroTotals(s)) = total_expenses(s)

\* a styled document of a summary with a zero and a positive category total
C10_Witness ==
  /\ rendered # <<>>
  /\ rendered[1].format = "html"
  /\ neutral_category_count(summary[1]) = 1
  /\ revenue_category_count(summary[1]) = 1
  /\ total_revenue(summary[1]) = 5

(***************************************************************************)
(* C11: for the empty transaction sequence the aggregator returns, without *)
(* error, the Summary with no transactions, total zero and empty maps, and *)
(* every renderer handles that Summary without emitting a data row: the    *)
(* markup document is the heading and the one "no transactions" notice,    *)
(* the structured data has empty collections, and each section of the      *)
(* styled document shows its empty-state notice.                           *)
(***************************************************************************)
EmptySummary == ReportSummary(<<>>, 0, <<>>, <<>>)

IsDataRow(line) ==
  line.kind \in {"category row", "day row", "transaction row"}

NoDataRows(doc) ==
  /\ doc.markdown # <<>> =>
       /\ SelectSeq(doc.markdown[1], IsDataRow) = <<>>
       /\ doc.markdown[1] =
            << Line("h1", <<>>), Line("blank", <<>>), Line("notice", <<>>) >>
  /\ doc.json # <<>> =>
       /\ doc.json[1].transactions = <<>>
       /\ doc.json[1].totals_by_category = <<>>
       /\ doc.json[1].totals_by_day = <<>>
       /\ doc.json[1].total_amount = <<"0">>
  /\ doc.html # <<>> =>
       /\ doc.html[1].category_section = Section(TRUE, <<>>)
       /\ doc.html[1].daily_section = Section(TRUE, <<>>)
       /\ doc.html[1].transaction_section = Section(TRUE, <<>>)

C11_EmptyInput ==
  (transactions = << <<>> >> /\ pc \in {"summarized", "rendered", "done"}) =>
    /\ error = NoError
    /\ summary = <<EmptySummary>>
    /\ \A f \in {"markdown", "html", "json"} : \A today \in Days :
         NoDataRows(Document(f, FALSE, summary[1], today))
    /\ pc \in {"rendered", "done"} =>
         rendered # <<>> /\ NoDataRows(rendered[1])
    /\ pc = "done" => outFile \o stdout = rendered

C11_Witness ==
  /\ pc = "done"
  /\ transactions = << <<>> >>
  /\ fileRead
  /\ args.format = "markdown"
  /\ stdout = <<Document("markdown", FALSE, EmptySummary, 20240101)>>

(***************************************************************************)
(* C12: parsing the structured-data rendering back (amount text to         *)
(* decimal, ISO text to date) gives the total_amount, the category-to-     *)
(* total map and the day-to-total map of the Summary that was rendered;    *)
(* every amount of the rendering is the text of a decimal and every date   *)
(* a YYYY-MM-DD text.                                                      *)
(***************************************************************************)
IsAmountText(s) == DecimalOf(s).ok /\ s = Strip(s)

IsIsoDateText(s) == Len(s) = 10 /\ FromIsoFormat(s).ok

ParseAmount(s) == DecimalOf(s).val.n

ParseDate(s) == FromIsoFormat(s).val.n

\* a dict as the set of its (key, value) pairs
ItemsOf(dict) == {<<dict[i].k, dict[i].v>> : i \in 1..Len(dict)}

AllTextual(d) ==
  /\ IsAmountText(d.total_amount)
  /\ \A i \in 1..Len(d.totals_by_category) :
       IsAmountText(d.totals_by_category[i].v)
  /\ \A i \in 1..Len(d.totals_by_day) :
       /\ IsIsoDateText(d.totals_by_day[i].k)
       /\ IsAmountText(d.totals_by_day[i].v)
  /\ \A i \in 1..Len(d.transactions) :
       /\ IsIsoDateText(d.transactions[i].date)
       /\ IsAmountText(d.transactions[i].amount)

C12_StructuredRoundTrip ==
  (pc \in {"rendered", "done"} /\ rendered[1].json # <<>>) =>
    LET d == rendered[1].json[1]
        s == summary[1]
    IN /\ AllTextual(d)
       /\ ParseAmount(d.total_amount) = s.total_amount
       /\ Len(d.totals_by_category) = Len(s.totals_by_category)
       /\ {<<kv[1], ParseAmount(kv[2])>> : kv \in ItemsOf(d.totals_by_category)}
            = ItemsOf(s.totals_by_category)
       /\ Len(d.totals_by_day) = Len(s.totals_by_day)
       /\ {<<ParseDate(kv[1]), ParseAmount(kv[2])>> :
             kv \in ItemsOf(d.totals_by_day)}
            = ItemsOf(s.totals_by_day)
       /\ Len(d.transactions) = Len(s.transactions)
       /\ \A i \in 1..Len(d.transactions) :
            /\ ParseDate(d.transactions[i].date) = s.transactions[i].occurred_on
            /\ ParseAmount(d.transactions[i].amount) = s.transactions[i].amount

C12_Witness ==
  /\ pc = "done"
  /\ rendered[1].json # <<>>
  /\ outFile = rendered
  /\ Len(summary[1].totals_by_day) = 2
  /\ Len(summary[1].transactions) = 2
  /\ \E i \in 1..Len(summary[1].totals_by_category) :
       summary[1].totals_by_category[i].v < 0
  /\ rendered[1].json[1].totals_by_category # <<>>

(***************************************************************************)
(* C13: the document a renderer returns is a function of the Summary (and  *)
(* of the format chosen) alone: whatever day date.today() returns while    *)
(* the styled document is built, each of the three renderers returns the   *)
(* same document for the same Summary.                                     *)
(***************************************************************************)
C13_RenderIsAFunctionOfTheSummary ==
  pc \in {"rendered", "done"} =>
    \A today \in Days :
      rendered[1] = Document(args.format, args.pretty, summary[1], today)

C13_Witness ==
  /\ pc = "rendered"
  /\ args.format = "html"
  /\ summary[1].transactions # <<>>
  /\ summary[1].totals_by_day # <<>>
  /\ rendered[1].html[1] = build_html_report(summary[1], 20240101)
  /\ rendered[1].html[1] = build_html_report(summary[1], 20240102)

(***************************************************************************)
(* C14: when no category of the Summary nets to zero, the net_income of    *)
(* the styled document, which is the Summary's total_amount, equals its    *)
(* gross_profit, and the two KPI cards show the same amount.               *)
(***************************************************************************)
NoZeroCategory(s) ==
  \A i \in 1..Len(s.totals_by_category) : s.totals_by_category[i].v # 0

IndexPermutations(n) ==
  {f \in [1..n -> 1..n] : \A i, j \in 1..n : f[i] = f[j] => i = j}

Permuted(seq, f) == [i \in 1..Len(seq) |-> seq[f[i]]]

\* s1 is s2 but for its transactions, which are the sequence t
SameTotalsOtherOrder(s1, s2, t) == s1 = [s2 EXCEPT !.transactions = t]

C15_OrderIndependentTotals ==
  [][(pc = "loaded" /\ pc' = "summarized") =>
       /\ transactions' = transactions
       /\ summary'[1].transactions = transactions[1]
       /\ \A f \in IndexPermutations(Len(transactions[1])) :
            SameTotalsOtherOrder(
              summarize_transactions(Permuted(transactions[1], f)),
              summary'[1], Permuted(transactions[1], f))]_vars

C15_Witness ==
  /\ pc = "summarized"
  /\ Len(transactions[1]) = 3
  /\ transactions[1][1].category = <<"B">>
  /\ transactions[1][2].category = <<"A">>
  /\ transactions[1][3].category = <<"B">>
  /\ transactions[1][1].occurred_on > transactions[1][3].occurred_on
  /\ transactions[1][1].amount # transactions[1][3].amount
  /\ summary[1].transactions = transactions[1]
  /\ Len(summary[1].totals_by_category) = 2
  /\ Len(summary[1].totals_by_day) = 2

(***************************************************************************)
(* C16: rendering and emitting leave the Summary as the aggregator         *)
(* returned it: its transactions, total_amount, totals_by_category and     *)
(* totals_by_day, contents and iteration order, are the same after the     *)
(* step as before it, in each of the three formats.                        *)
(***************************************************************************)
SummaryAsReturned(s, t) == s = <<summarize_transactions(t[1])>>

C16_RenderersOnlyRead ==
  [][(pc \in {"summarized", "rendered"}) =>
       (summary' = summary /\ SummaryAsReturned(summary', transactions'))]_vars

C16_Witness ==
  /\ pc = "done"
  /\ Len(transactions[1]) = 3
  /\ summary[1] = summarize_transactions(transactions[1])
  /\ Len(summary[1].totals_by_category) = 2
  /\ Len(summary[1].totals_by_day) = 2
  /\ rendered[1].json # <<>>
  /\ stdout = rendered

(***************************************************************************)
(* C17: in the styled document each data section decides on its own        *)
(* collection: it shows its empty-state notice exactly when its collection *)
(* (totals_by_category, totals_by_day, transactions) is empty, and         *)
(* otherwise a table with one row per element of that collection,          *)
(* whatever the other two collections hold.                                *)
(***************************************************************************)
SectionShows(section, collection) ==
  /\ section.empty_state <=> collection = <<>>
  /\ Len(section.rows) = Len(collection)

C17_SectionsDecideAlone ==
  (pc \in {"rendered", "done"} /\ rendered[1].html # <<>>) =>
    LET doc == rendered[1].html[1]
        s == summary[1]
    IN /\ SectionShows(doc.category_section, s.totals_by_category)
       /\ SectionShows(doc.daily_section, s.totals_by_day)
       /\ SectionShows(doc.transaction_section, s.transactions)
       /\ \A i \in 1..Len(s.totals_by_category) :
            doc.category_section.rows[i][1] = s.totals_by_category[i].k
       /\ \A i \in 1..Len(s.totals_by_day) :
            \E j \in 1..Len(doc.daily_section.rows) :
              doc.daily_section.rows[j][1] = Strftime(s.totals_by_day[i].k)
       /\ \A i \in 1..Len(s.transactions) :
            doc.transaction_section.rows[i][3] = s.transactions[i].description

C17_Witness ==
  /\ pc = "rendered"
  /\ rendered[1].html # <<>>
  /\ summary[1].transactions = <<>>
  /\ summary[1].totals_by_category = <<>>
  /\ Len(summary[1].totals_by_day) = 2
  /\ rendered[1].html[1].transaction_section.empty_state
  /\ rendered[1].html[1].category_section.empty_state
  /\ ~rendered[1].html[1].daily_section.empty_state
  /\ Len(rendered[1].html[1].daily_section.rows) = 2

(***************************************************************************)
(* C18: for every Summary the styled document's average_daily_total is     *)
(* total_amount divided by the number of days, and zero when there is no   *)
(* day; its average_transaction is total_amount divided by the number of   *)
(* transactions, and zero when there is none; the cards show these values. *)
(***************************************************************************)
SameFrac(a, b) == a.den # 0 /\ b.den # 0 /\ a.num * b.den = b.num * a.den

ClaimedAverage(total, count) ==
  IF count # 0 THEN Frac(total, count) ELSE Frac(0, 1)

C18_Averages ==
  (pc \in {"rendered", "done"} /\ rendered[1].html # <<>>) =>
    LET s == summary[1]
        cards == rendered[1].html[1].analysis_cards
        daily == ClaimedAverage(s.total_amount, Len(s.totals_by_day))
        each == ClaimedAverage(s.total_amount, Len(s.transactions))
    IN /\ SameFrac(average_daily_total(s), daily)
       /\ SameFrac(average_transaction(s), each)
       /\ cards.average_daily_total = format_currency(daily)
       /\ cards.average_transaction = format_currency(each)

(***************************************************************************)
(* C19: the description of every loaded Transaction is the description of  *)
(* its source record character for character, blanks included, and the     *)
(* empty string when the record supplies no description.                   *)
(***************************************************************************)
ClaimedDescription(raw) ==
  IF Get(raw, "description").t = "str" THEN Get(raw, "description").s ELSE <<>>

C19_DescriptionVerbatim ==
  pc = "loading" =>
    \A i \in 1..Len(partial) :
      partial[i].description = ClaimedDescription(Records(file)[i])

(***************************************************************************)
(* C20: for every Summary summarize_transactions returns, categories that  *)
(* net to zero included, the gross_profit and the net_income of the styled *)
(* document are both the Summary's total_amount, and their cards show the  *)
(* same amount.                                                            *)
(***************************************************************************)
C20_AggregatedGrossIsNet ==
  (pc \in {"rendered", "done"} /\ rendered[1].html # <<>>) =>
    LET s == summary[1]
        cards == rendered[1].html[1].kpi_cards
    IN /\ s = summarize_transactions(transactions[1])
       /\ gross_profit(s) = s.total_amount
       /\ net_income(s) = s.total_amount
       /\ cards.gross_profit = cards.net_income

C20_Witness ==
  /\ pc = "rendered"
  /\ rendered[1].html # <<>>
  /\ Len(transactions[1]) = 3
  /\ \E i, j \in 1..Len(summary[1].totals_by_category) :
       /\ summary[1].totals_by_category[i].v = 0
       /\ summary[1].totals_by_category[j].v < 0
  /\ \E k \in 1..3 : transactions[1][k].amount > 0
  /\ rendered[1].html[1].kpi_cards.net_income
       = <<"$", "-", "5", ".", "0", "0">>

(***************************************************************************)
(* C21: the records are coerced in input order and, within a record, the   *)
(* date before the amount: a load that fails on a record fails on the      *)
(* first record of the input with a faulty date or amount, with the error  *)
(* of that record's date if its date is faulty and of its amount           *)
(* otherwise, and no record after that one has been taken from the input.  *)
(***************************************************************************)
FaultyRecords(f) ==
  {i \in 1..Len(Records(f)) : RequiredFieldFault(Records(f)[i])}

FirstFaulty(f) ==
  CHOOSE i \in FaultyRecords(f) : \A j \in FaultyRecords(f) : i <= j

\* the error of the record's date if the date is faulty, else of its amount
FirstFaultOf(raw) ==
  IF ~_coerce_date(raw, "date").ok
    THEN _coerce_date(raw, "date").err
    ELSE _coerce_amount(raw, "amount").err

C21_FirstFaultWins ==
  /\ (pc = "failed" /\ idx > 0) =>
       /\ FaultyRecords(file) # {}
       /\ idx = FirstFaulty(file)
       /\ error = FirstFaultOf(Records(file)[idx])
  /\ (pc = "loading" /\ FaultyRecords(file) # {}) => idx < FirstFaulty(file)
  /\ pc \in {"loaded", "summarized", "rendered", "done"} =>
       FaultyRecords(file) = {}

====
